---------------------------- MODULE Spec2Model ----------------------------
(***************************************************************************)
(* A model of the apidoc package: the schema reflector (reflection.go),    *)
(* the endpoint registry and the two document generators (registry.go).   *)
(*                                                                         *)
(* Go strings that the code takes apart (struct tags, annotation values)  *)
(* are sequences of one-character strings, so that Split, TrimSpace and   *)
(* the numeric parsers are modelled by what they do.  Strings the code    *)
(* only carries around or compares with literals (methods, paths, schema  *)
(* keys, type names) are TLA+ strings.                                     *)
(***************************************************************************)
EXTENDS Integers, Sequences, FiniteSets, TLC

VARIABLES
    endpoints,   \* registry.endpoints: sequence of EndpointConfig
    info,        \* registry.info: OpenAPIInfo
    baseURL,     \* registry.baseURL
    tagsHeap,    \* backing arrays of the Tags slices, by allocation
    respHeap,    \* the Responses maps, by allocation
    secHeap,     \* backing arrays of the Security slices, by allocation
    result,      \* what the last call returned to its caller, if anything
    crashed,     \* the process died of a fatal stack overflow
    calls,       \* history: the EndpointConfig of each RegisterEndpoint call so far
    input,       \* reflector: the value handed to reflectToJSONSchema
    schema,      \* reflector: what reflectToJSONSchema returned
    rw,          \* registryLock: [writer, readers]
    pc,          \* per goroutine: position inside its current call
    local        \* per goroutine: locals of its current call

vars == <<endpoints, info, baseURL, tagsHeap, respHeap, secHeap, result,
          crashed, calls, input, schema, rw, pc, local>>

registryVars == <<endpoints, info, baseURL, tagsHeap, respHeap, secHeap,
                  result, crashed, calls>>
reflectVars == <<input, schema>>
lockVars == <<rw, pc, local>>

---------------------------------------------------------------------------
(* Bounds of the model.                                                    *)

\* longest field list of a generated struct type
MaxFields == 2
\* most endpoints registered in one run
MaxEndpoints == 2
\* call depth at which the Go runtime gives up with "stack overflow";
\* deeper than any acyclic type of the model nests
StackLimit == 8

---------------------------------------------------------------------------
(* Strings library (package strings, package fmt) as used by the code.     *)

Nil == [nil |-> TRUE]

DigitChars == {"0", "1", "2", "3", "4", "5", "6", "7", "8", "9"}

DigitVal(c) ==
    CASE c = "0" -> 0 [] c = "1" -> 1 [] c = "2" -> 2 [] c = "3" -> 3
      [] c = "4" -> 4 [] c = "5" -> 5 [] c = "6" -> 6 [] c = "7" -> 7
      [] c = "8" -> 8 [] c = "9" -> 9

\* index of the first occurrence of character sep in s, 0 when absent
IndexOf(s, sep) ==
    IF \E i \in 1..Len(s) : s[i] = sep
    THEN CHOOSE i \in 1..Len(s) : s[i] = sep /\ \A k \in 1..(i - 1) : s[k] # sep
    ELSE 0

RECURSIVE Split(_, _)
\* strings.Split(s, sep) for a one-character separator
Split(s, sep) ==
    LET i == IndexOf(s, sep)
    IN IF i = 0 THEN <<s>>
       ELSE <<SubSeq(s, 1, i - 1)>> \o Split(SubSeq(s, i + 1, Len(s)), sep)

\* strings.SplitN(s, sep, 2)
SplitN2(s, sep) ==
    LET i == IndexOf(s, sep)
    IN IF i = 0 THEN <<s>>
       ELSE <<SubSeq(s, 1, i - 1), SubSeq(s, i + 1, Len(s))>>

RECURSIVE TrimSpace(_)
\* strings.TrimSpace(s)
TrimSpace(s) ==
    IF s = <<>> THEN s
    ELSE IF s[1] = " " THEN TrimSpace(Tail(s))
    ELSE IF s[Len(s)] = " " THEN TrimSpace(SubSeq(s, 1, Len(s) - 1))
    ELSE s

RECURSIVE DigitsValue(_)
\* the number a string of decimal digits denotes
DigitsValue(ds) ==
    IF ds = <<>> THEN 0
    ELSE 10 * DigitsValue(SubSeq(ds, 1, Len(ds) - 1)) + DigitVal(ds[Len(ds)])

RECURSIVE DigitPrefix(_)
\* the longest prefix of s made of decimal digits
DigitPrefix(s) ==
    IF s # <<>> /\ s[1] \in DigitChars
    THEN <<s[1]>> \o DigitPrefix(Tail(s))
    ELSE <<>>

\* an optional sign taken off the front: [neg, rest]
TakeSign(s) ==
    IF s # <<>> /\ s[1] \in {"+", "-"}
    THEN [neg |-> s[1] = "-", rest |-> Tail(s)]
    ELSE [neg |-> FALSE, rest |-> s]

\* the values an interface{} can hold in a schema, kept apart by kind
IntV(n) == [int |-> n]
FloatV(m, e) == [fmant |-> m, fexp |-> e]   \* m * 10^(-e)
BoolV(b) == [bool |-> b]
StrV(s) == [str |-> s]

\* fmt.Sscanf(s, "%d", &i): an optional sign and the digits that follow;
\* what comes after the digits is left unread, without error
parseIntHelper(s) ==
    LET sg == TakeSign(TrimSpace(s))
        ds == DigitPrefix(sg.rest)
    IN IF ds = <<>> THEN [ok |-> FALSE]
       ELSE [ok |-> TRUE,
             val |-> IF sg.neg THEN 0 - DigitsValue(ds) ELSE DigitsValue(ds)]

\* fmt.Sscanf(s, "%f", &f), for the inputs parseIntHelper refused: those
\* have no digit before the point, so the token is sign, ".", digits
parseFloatHelper(s) ==
    LET sg == TakeSign(TrimSpace(s))
        ip == DigitPrefix(sg.rest)
        af == SubSeq(sg.rest, Len(ip) + 1, Len(sg.rest))
        fr == IF af # <<>> /\ af[1] = "." THEN DigitPrefix(Tail(af)) ELSE <<>>
        m  == DigitsValue(ip \o fr)
    IN IF ip = <<>> /\ fr = <<>> THEN [ok |-> FALSE]
       ELSE [ok |-> TRUE, val |-> FloatV(IF sg.neg THEN 0 - m ELSE m, Len(fr))]

\* parseNumber: integer first, then float, then the string itself
parseNumber(s) ==
    IF parseIntHelper(s).ok THEN IntV(parseIntHelper(s).val)
    ELSE IF parseFloatHelper(s).ok THEN parseFloatHelper(s).val
    ELSE StrV(s)

\* parseValue: the zero value for integer and number, s == "true" for
\* boolean, the string itself otherwise
parseValue(s, typ) ==
    CASE typ = "integer" -> IntV(0)
      [] typ = "number" -> FloatV(0, 0)
      [] typ = "boolean" -> BoolV(s = <<"t", "r", "u", "e">>)
      [] OTHER -> StrV(s)

---------------------------------------------------------------------------
(* Annotation keys and other string literals of reflection.go.             *)

s_required == <<"r", "e", "q", "u", "i", "r", "e", "d">>
s_enum == <<"e", "n", "u", "m">>
s_min == <<"m", "i", "n">>
s_minimum == <<"m", "i", "n", "i", "m", "u", "m">>
s_max == <<"m", "a", "x">>
s_maximum == <<"m", "a", "x", "i", "m", "u", "m">>
s_minLength == <<"m", "i", "n", "L", "e", "n", "g", "t", "h">>
s_maxLength == <<"m", "a", "x", "L", "e", "n", "g", "t", "h">>
s_pattern == <<"p", "a", "t", "t", "e", "r", "n">>
s_default == <<"d", "e", "f", "a", "u", "l", "t">>
s_description == <<"d", "e", "s", "c", "r", "i", "p", "t", "i", "o", "n">>
s_format == <<"f", "o", "r", "m", "a", "t">>
s_example == <<"e", "x", "a", "m", "p", "l", "e">>
s_dash == <<"-">>

\* m[k] = v on a Go map
SetKey(m, k, v) == [x \in DOMAIN m \cup {k} |-> IF x = k THEN v ELSE m[x]]

---------------------------------------------------------------------------
(* Types as package reflect shows them.  A descriptor is a record with a   *)
(* kind; composite kinds carry their element type, structs their fields.  *)
(* A declared type that refers to itself is reached by name.               *)

T_string == [kind |-> "string"]
T_int == [kind |-> "int"]
T_int64 == [kind |-> "int64"]
T_uint8 == [kind |-> "uint8"]
T_float64 == [kind |-> "float64"]
T_bool == [kind |-> "bool"]
T_chan == [kind |-> "chan"]
T_ptr(t) == [kind |-> "ptr", elem |-> t]
T_slice(t) == [kind |-> "slice", elem |-> t]
T_array(t) == [kind |-> "array", elem |-> t]
T_map(t) == [kind |-> "map", elem |-> t]
T_struct(fs) == [kind |-> "struct", fields |-> fs]
T_named(n) == [kind |-> "named", name |-> n]

\* a struct field: reflect.StructField with its three tags looked up
Field(exp, json, openapi, doc, t) ==
    [exported |-> exp, jsonTag |-> json, openapiTag |-> openapi,
     docTag |-> doc, type |-> t]

IntegerKinds == {"int", "int8", "int16", "int32", "int64",
                 "uint", "uint8", "uint16", "uint32", "uint64"}
FloatKinds == {"float32", "float64"}

\* the declared types of the model's programs
NamedTypes ==
    [ Address |-> T_struct(<<
          Field(TRUE, <<"s", "t">>, s_required, <<>>, T_string),
          Field(TRUE, <<"z", "i", "p">>, <<>>, <<>>, T_int) >>),
      Company |-> T_struct(<<
          Field(TRUE, <<"h", "q">>, s_required, <<>>, T_named("Address")),
          Field(TRUE, <<"a", "l", "l">>, <<>>, <<>>, T_slice(T_named("Address"))) >>),
      \* type Node struct { Children []Node }
      Node |-> T_struct(<<
          Field(TRUE, <<"n">>, <<>>, <<>>, T_string),
          Field(TRUE, <<"k", "i", "d", "s">>, <<>>, <<>>, T_slice(T_named("Node"))) >>),
      \* type Tree struct { Left *Tree }
      Tree |-> T_struct(<<
          Field(TRUE, <<"l">>, <<>>, <<>>, T_ptr(T_named("Tree"))) >>),
      \* type Dept struct { Staff []Emp }; type Emp struct { Depts map[string]Dept }
      Dept |-> T_struct(<<
          Field(TRUE, <<"s">>, <<>>, <<>>, T_slice(T_named("Emp"))) >>),
      Emp |-> T_struct(<<
          Field(TRUE, <<"d">>, <<>>, <<>>, T_map(T_named("Dept"))) >>) ]

\* the type behind a declared name: t.Kind() and t.Elem() see through it
Resolve(t) == IF t.kind = "named" THEN NamedTypes[t.name] ELSE t

---------------------------------------------------------------------------
(* reflection.go                                                           *)

\* what a fatal "stack overflow" leaves instead of a result
Overflow == [crash |-> "stack overflow"]
IsOverflow(s) == "crash" \in DOMAIN s

\* one token of the annotation, applied to [schema, required]
applyPart(part0, st, fieldName) ==
    LET part == TrimSpace(part0)
        kv == SplitN2(part, "=")
    IN IF part = s_required
       THEN [st EXCEPT !.required = Append(@, fieldName)]
       ELSE IF Len(kv) # 2 THEN st
       ELSE
         LET key == TrimSpace(kv[1])
             value == TrimSpace(kv[2])
             sch == st.schema
             set(k, v) == [st EXCEPT !.schema = SetKey(sch, k, v)]
         IN CASE key = s_enum -> set("enum", Split(value, "|"))
              [] key \in {s_min, s_minimum} -> set("minimum", parseNumber(value))
              [] key \in {s_max, s_maximum} -> set("maximum", parseNumber(value))
              [] key = s_minLength -> set("minLength", parseNumber(value))
              [] key = s_maxLength -> set("maxLength", parseNumber(value))
              [] key = s_pattern -> set("pattern", value)
              [] key = s_default -> set("default", parseValue(value, sch.type))
              [] key = s_description -> set("description", value)
              [] key = s_format -> set("format", value)
              [] key = s_example -> set("example", parseValue(value, sch.type))
              [] OTHER -> st

RECURSIVE applyParts(_, _, _)
applyParts(parts, st, fieldName) ==
    IF parts = <<>> THEN st
    ELSE applyParts(Tail(parts), applyPart(Head(parts), st, fieldName), fieldName)

\* parseOpenAPITag: the schema and the required list after the tag's tokens
parseOpenAPITag(tag, sch, required, fieldName) ==
    applyParts(Split(tag, ","), [schema |-> sch, required |-> required], fieldName)

\* structToSchema without the test for the json tag "-"
FieldKeptDashToo(f) ==
    /\ f.exported
    /\ f.jsonTag # <<>>

\* the fields structToSchema does not skip
FieldKept(f) ==
    /\ f.exported
    /\ f.jsonTag # <<>>
    /\ f.jsonTag # s_dash

\* the name a kept field gets in properties
FieldName(f) == Split(f.jsonTag, ",")[1]

\* the type a field's schema is computed from
FieldType(f) == f.type

RECURSIVE typeToSchemaAt(_, _), structLoop(_, _, _, _)

\* the loop of structToSchema from field i on, properties and required so far
structLoop(fields, i, st, depth) ==
    IF i > Len(fields)
    THEN IF Len(st.required) > 0
         THEN [type |-> "object", properties |-> st.props, required |-> st.required]
         ELSE [type |-> "object", properties |-> st.props]
    ELSE
      LET f == fields[i]
      IN IF ~FieldKept(f) THEN structLoop(fields, i + 1, st, depth)
         ELSE
           LET fieldName == FieldName(f)
               base == typeToSchemaAt(FieldType(f), depth + 1)
               tagged == IF f.openapiTag # <<>>
                         THEN parseOpenAPITag(f.openapiTag, base, st.required, fieldName)
                         ELSE [schema |-> base, required |-> st.required]
               fieldSchema == IF f.docTag # <<>>
                              THEN SetKey(tagged.schema, "description", f.docTag)
                              ELSE tagged.schema
           IN IF IsOverflow(base) THEN Overflow
              ELSE structLoop(fields, i + 1,
                              [props |-> SetKey(st.props, fieldName, fieldSchema),
                               required |-> tagged.required], depth)

\* structToSchema
structToSchema(t, depth) ==
    structLoop(t.fields, 1, [props |-> <<>>, required |-> <<>>], depth)

\* arrayToSchema
arrayToSchema(t, depth) ==
    LET items == typeToSchemaAt(t.elem, depth + 1)
    IN IF IsOverflow(items) THEN Overflow
       ELSE [type |-> "array", items |-> items]

\* mapToSchema
mapToSchema(t, depth) ==
    LET ap == typeToSchemaAt(t.elem, depth + 1)
    IN IF IsOverflow(ap) THEN Overflow
       ELSE [type |-> "object", additionalProperties |-> ap]

\* typeToSchema called at the given call depth
typeToSchemaAt(t0, depth) ==
    IF depth > StackLimit THEN Overflow
    ELSE
      LET t == Resolve(t0)
      IN CASE t.kind = "struct" -> structToSchema(t, depth)
           [] t.kind \in {"slice", "array"} -> arrayToSchema(t, depth)
           [] t.kind = "map" -> mapToSchema(t, depth)
           [] t.kind = "string" -> [type |-> "string"]
           [] t.kind \in IntegerKinds -> [type |-> "integer"]
           [] t.kind \in FloatKinds -> [type |-> "number"]
           [] t.kind = "bool" -> [type |-> "boolean"]
           [] OTHER -> [type |-> "object"]

typeToSchema(t) == typeToSchemaAt(t, 1)

RECURSIVE Deref(_)
\* for t.Kind() == reflect.Ptr { t = t.Elem() }
Deref(t) == IF Resolve(t).kind = "ptr" THEN Deref(Resolve(t).elem) ELSE t

\* reflectToJSONSchema: v is Nil or a value, given by its dynamic type
reflectToJSONSchema(v) ==
    IF v = Nil THEN [type |-> "object"]
    ELSE typeToSchema(Deref(v.type))

---------------------------------------------------------------------------
(* The reflector on its own: the values a program can hand to it.          *)

\* key=value as it is written in a tag
KV(k, v) == k \o <<"=">> \o v

RECURSIVE Join(_, _)
\* tokens written one after the other with sep between them
Join(toks, sep) ==
    IF Len(toks) = 0 THEN <<>>
    ELSE IF Len(toks) = 1 THEN toks[1]
    ELSE toks[1] \o <<sep>> \o Join(Tail(toks), sep)

\* the fields the generated struct types are made of
FieldChoices == <<
    \* ID int `json:"id" openapi:"required"`
    Field(TRUE, <<"i", "d">>, s_required, <<>>, T_int),
    \* Name string `json:"name,omitempty" openapi:" required , minLength=1" doc:"dn"`
    Field(TRUE, <<"n", "a", "m", "e", ",", "o">>,
          Join(<<<<" ">> \o s_required \o <<" ">>, <<" ">> \o KV(s_minLength, <<"1">>)>>, ","),
          <<"d", "n">>, T_string),
    \* secret string `json:"secret" openapi:"required"`
    Field(FALSE, <<"s", "e", "c">>, s_required, <<>>, T_string),
    \* Skip string `json:"-" openapi:"required"`
    Field(TRUE, s_dash, s_required, <<>>, T_string),
    \* Bare int `openapi:"required"`
    Field(TRUE, <<>>, s_required, <<>>, T_int),
    \* Id2 string `json:"id" openapi:"required,required"`
    Field(TRUE, <<"i", "d">>, Join(<<s_required, s_required>>, ","), <<>>, T_string),
    \* Limit int64 `json:"limit" openapi:"default=50,min=1,max=1.5,example=7"`
    Field(TRUE, <<"l", "i", "m">>,
          Join(<<KV(s_default, <<"5", "0">>), KV(s_min, <<"1">>),
                 KV(s_max, <<"1", ".", "5">>), KV(s_example, <<"7">>)>>, ","),
          <<>>, T_int64),
    \* On bool `json:"on" openapi:"default=true,example=TRUE,bogus,x=1"`
    Field(TRUE, <<"o", "n">>,
          Join(<<KV(s_default, <<"t", "r", "u", "e">>),
                 KV(s_example, <<"T", "R", "U", "E">>),
                 <<"b", "o", "g", "u", "s">>, KV(<<"x">>, <<"1">>)>>, ","),
          <<>>, T_bool),
    \* Addr Address `json:"addr"`
    Field(TRUE, <<"a", "d", "d", "r">>, <<>>, <<>>, T_named("Address")),
    \* PAddr *Address `json:"paddr" openapi:"required"`
    Field(TRUE, <<"p", "a", "d", "d", "r">>, s_required, <<>>, T_ptr(T_named("Address"))),
    \* Kids []Node `json:"kids"`
    Field(TRUE, <<"k", "i", "d", "s">>, <<>>, <<>>, T_slice(T_named("Node"))),
    \* Mode string `json:"mode" openapi:"enum=a|b,default=a,pattern=a=b,format=f,description=d" doc:"dd"`
    Field(TRUE, <<"m", "o", "d", "e">>,
          Join(<<KV(s_enum, <<"a", "|", "b">>), KV(s_default, <<"a">>),
                 KV(s_pattern, <<"a", "=", "b">>), KV(s_format, <<"f">>),
                 KV(s_description, <<"d">>)>>, ","),
          <<"d", "d">>, T_string),
    \* M map[string]*Address `json:"m"`
    Field(TRUE, <<"m">>, <<>>, <<>>, T_map(T_ptr(T_named("Address")))),
    \* Rate float64 `json:"rate" openapi:"default=5,minimum=.5,maximum=x,maxLength=-3"`
    Field(TRUE, <<"r", "a", "t", "e">>,
          Join(<<KV(s_default, <<"5">>), KV(s_minimum, <<".", "5">>),
                 KV(s_maximum, <<"x">>), KV(s_maxLength, <<"-", "3">>)>>, ","),
          <<>>, T_float64),
    \* Co []Company `json:"co" openapi:"description=d"`
    Field(TRUE, <<"c", "o">>, KV(s_description, <<"d">>), <<>>, T_slice(T_named("Company"))),
    \* PCo []*Company `json:"pco"`
    Field(TRUE, <<"p", "c", "o">>, <<>>, <<>>, T_slice(T_ptr(T_named("Company")))),
    \* Ch chan int `json:"ch"`
    Field(TRUE, <<"c", "h">>, <<>>, <<>>, T_chan),
    \* Raw [4]uint8 `json:",omitempty" openapi:"example=-12"`
    Field(TRUE, <<",", "o">>, KV(s_example, <<"-", "1", "2">>), <<>>, T_array(T_uint8)) >>

\* the sequences over 1..n of length at most k
SeqsUpTo(n, k) == UNION {[1..m -> 1..n] : m \in 0..k}

\* struct types of at most MaxFields of the fields above
StructTypes ==
    {T_struct([i \in DOMAIN ix |-> FieldChoices[ix[i]]]) : ix \in SeqsUpTo(Len(FieldChoices), MaxFields)}

\* the types of the values a program passes
ValueTypes ==
    StructTypes
    \cup {T_ptr(t) : t \in {s \in StructTypes : Len(s.fields) <= 1}}
    \cup {T_string, T_int, T_float64, T_bool, T_chan,
          T_named("Address"), T_named("Company"), T_named("Node"),
          T_named("Tree"), T_named("Dept"), T_named("Emp"),
          T_ptr(T_named("Company")), T_ptr(T_ptr(T_named("Address"))),
          T_slice(T_named("Company")), T_slice(T_ptr(T_named("Address"))),
          T_map(T_named("Node")), T_array(T_named("Tree"))}

Value(t) == [type |-> t]

ReflectInputs == {Nil} \cup {Value(t) : t \in ValueTypes}

NotCalled == [called |-> FALSE]

---------------------------------------------------------------------------
(* registry.go: the registry and the values callers register.              *)

\* net/http.StatusText for the codes the model's programs use
StatusText(code) ==
    CASE code = 200 -> "OK"
      [] code = 201 -> "Created"
      [] code = 400 -> "Bad Request"
      [] code = 404 -> "Not Found"
      [] code = 500 -> "Internal Server Error"
      [] OTHER -> ""

\* a response given as a plain description string
StrResp(s) == [str |-> s]
IsString(v) == "str" \in DOMAIN v

RecognizedMethods == {"GET", "POST", "PUT", "DELETE", "PATCH"}

\* an EndpointConfig literal as a caller writes it: slices and map by value
Config(m, p, s, tags, body, resps, sec) ==
    [Method |-> m, Path |-> p, Summary |-> s, Description |-> "",
     Tags |-> tags, RequestBody |-> body, Responses |-> resps, Security |-> sec]

NoResponses == <<>>

\* the endpoints the model's programs register
EndpointChoices == <<
    Config("GET", "/a", "list", <<"t1">>, Nil,
           (200 :> Value(T_named("Address"))), <<"mTLS">>),
    Config("GET", "/a", "list again", <<>>, Nil,
           (201 :> Nil @@ 400 :> StrResp("bad")), <<>>),
    Config("POST", "/a", "create", <<"t1", "t2">>, Value(T_ptr(T_named("Company"))),
           (299 :> Nil @@ 999 :> StrResp("custom")), <<"mTLS", "Bearer">>),
    Config("HEAD", "/b", "probe", <<>>, Nil, NoResponses, <<>>),
    Config("PUT", "/b", "grow", <<>>, Value(T_named("Node")),
           (200 :> Nil), <<>>),
    Config("DELETE", "/a", "drop", <<"t2">>, Nil,
           (404 :> Value(T_string)), <<"Bearer">>),
    Config("PATCH", "/b", "touch", <<>>, Value(T_struct(<<FieldChoices[7]>>)),
           (500 :> Value(T_named("Tree")) @@ 200 :> StrResp("fine")), <<>>) >>

\* the (title, version, description, baseURL) a program passes
InfoChoices == {
    <<"svc", "1.0", "first", "http://one">>,
    <<"api", "2.0", "second", "http://two">> }

\* a slice header: the backing array and the length
Slice(ref, n) == [ref |-> ref, len |-> n]

\* the elements a slice header shows
SliceElems(heap, sl) == SubSeq(heap[sl.ref], 1, sl.len)

\* an endpoint with its slices and map read through the heaps
Deep(e) ==
    [e EXCEPT !.Tags = SliceElems(tagsHeap, e.Tags),
              !.Responses = respHeap[e.Responses],
              !.Security = SliceElems(secHeap, e.Security)]

\* the registry as any reader finds it
DeepEndpoints == [i \in DOMAIN endpoints |-> Deep(endpoints[i])]

\* the sequences that list each element of set S once
Orders(S) == {o \in [1..Cardinality(S) -> S] : \A x \in S : \E i \in DOMAIN o : o[i] = x}

NoResult == [kind |-> "none"]

---------------------------------------------------------------------------
(* registry.go: the document generators.                                   *)

\* the key a response is stored under
ResponseKey(statusCode) == StatusText(statusCode)

\* the description a response starts with
StatusStr(statusCode) ==
    IF StatusText(statusCode) = "" THEN "Response" ELSE StatusText(statusCode)

JSONContent(sch) == ("application/json" :> [Schema |-> sch])

RECURSIVE opResponses(_, _, _)
\* the loop over endpoint.Responses of endpointToOperation; order is the
\* order in which the range statement happens to visit the map
opResponses(resps, order, acc) ==
    IF order = <<>> THEN acc
    ELSE
      LET statusCode == Head(order)
          responseType == resps[statusCode]
          response ==
              IF responseType = Nil
              THEN [Description |-> StatusStr(statusCode), Content |-> Nil]
              ELSE IF IsString(responseType)
              THEN [Description |-> responseType.str, Content |-> Nil]
              ELSE [Description |-> StatusStr(statusCode),
                    Content |-> JSONContent(reflectToJSONSchema(responseType))]
      IN opResponses(resps, Tail(order),
                     SetKey(acc, ResponseKey(statusCode), response))

\* endpointToOperation; resps is the endpoint's Responses map
endpointToOperation(endpoint, resps, order) ==
    [Summary |-> endpoint.Summary,
     Description |-> endpoint.Description,
     Tags |-> endpoint.Tags,
     RequestBody |->
         IF endpoint.RequestBody # Nil
         THEN [Required |-> TRUE,
               Content |-> JSONContent(reflectToJSONSchema(endpoint.RequestBody))]
         ELSE Nil,
     Responses |-> opResponses(resps, order, <<>>),
     Security |->
         IF endpoint.Security.len > 0
         THEN [i \in 1..endpoint.Security.len |->
                  (SliceElems(secHeap, endpoint.Security)[i] :> <<>>)]
         ELSE Nil]

RECURSIVE descResponses(_, _, _)
\* the loop over endpoint.Responses of GenerateAPIDescription
descResponses(resps, order, acc) ==
    IF order = <<>> THEN acc
    ELSE
      LET statusCode == Head(order)
          responseType == resps[statusCode]
          respSchema ==
              IF responseType = Nil
              THEN [Description |-> StatusStr(statusCode),
                    ContentType |-> "application/json", Schema |-> Nil]
              ELSE IF IsString(responseType)
              THEN [Description |-> responseType.str,
                    ContentType |-> "text/plain", Schema |-> Nil]
              ELSE [Description |-> StatusStr(statusCode),
                    ContentType |-> "application/json",
                    Schema |-> reflectToJSONSchema(responseType)]
      IN descResponses(resps, Tail(order),
                       SetKey(acc, ResponseKey(statusCode), respSchema))

\* one APIEndpoint of GenerateAPIDescription
apiEndpoint(endpoint, resps, order) ==
    [Method |-> endpoint.Method,
     Path |-> endpoint.Path,
     Summary |-> endpoint.Summary,
     Description |-> endpoint.Description,
     Tags |-> endpoint.Tags,
     RequestBody |->
         IF endpoint.RequestBody # Nil
         THEN [ContentType |-> "application/json",
               Schema |-> reflectToJSONSchema(endpoint.RequestBody),
               Required |-> TRUE]
         ELSE Nil,
     Responses |-> descResponses(resps, order, <<>>)]

\* reflecting one of the endpoint's types overflows the stack
EndpointOverflows(endpoint, resps) ==
    \/ endpoint.RequestBody # Nil /\ IsOverflow(reflectToJSONSchema(endpoint.RequestBody))
    \/ \E c \in DOMAIN resps :
          /\ resps[c] # Nil
          /\ ~IsString(resps[c])
          /\ IsOverflow(reflectToJSONSchema(resps[c]))

EmptyPathItem == [Get |-> Nil, Post |-> Nil, Put |-> Nil, Delete |-> Nil, Patch |-> Nil]

\* the switch on endpoint.Method, were it to leave a filled slot alone
AssignMethodKeepFirst(pathItem, method, operation) ==
    CASE method = "GET" /\ pathItem.Get = Nil -> [pathItem EXCEPT !.Get = operation]
      [] method = "POST" /\ pathItem.Post = Nil -> [pathItem EXCEPT !.Post = operation]
      [] method = "PUT" /\ pathItem.Put = Nil -> [pathItem EXCEPT !.Put = operation]
      [] method = "DELETE" /\ pathItem.Delete = Nil -> [pathItem EXCEPT !.Delete = operation]
      [] method = "PATCH" /\ pathItem.Patch = Nil -> [pathItem EXCEPT !.Patch = operation]
      [] OTHER -> pathItem

\* the switch on endpoint.Method
AssignMethod(pathItem, method, operation) ==
    CASE method = "GET" -> [pathItem EXCEPT !.Get = operation]
      [] method = "POST" -> [pathItem EXCEPT !.Post = operation]
      [] method = "PUT" -> [pathItem EXCEPT !.Put = operation]
      [] method = "DELETE" -> [pathItem EXCEPT !.Delete = operation]
      [] method = "PATCH" -> [pathItem EXCEPT !.Patch = operation]
      [] OTHER -> pathItem

\* the path item the loop of GenerateOpenAPI starts from for a path
LookupPathItem(paths, path) ==
    IF path \in DOMAIN paths THEN paths[path] ELSE EmptyPathItem

RECURSIVE pathsLoop(_, _, _, _)
\* the loop of GenerateOpenAPI from endpoint i on
pathsLoop(eps, i, paths, orders) ==
    IF i > Len(eps) THEN paths
    ELSE
      LET endpoint == eps[i]
          pathItem == LookupPathItem(paths, endpoint.Path)
          operation == endpointToOperation(endpoint, respHeap[endpoint.Responses], orders[i])
      IN pathsLoop(eps, i + 1,
                   SetKey(paths, endpoint.Path,
                          AssignMethod(pathItem, endpoint.Method, operation)),
                   orders)

SecuritySchemes ==
    [mTLS |-> [Type |-> "mutualTLS", Scheme |-> "",
               Description |-> "Mutual TLS authentication with client certificates"],
     Bearer |-> [Type |-> "http", Scheme |-> "bearer",
                 Description |-> "JWT Bearer token authentication (ADR-031: OAuth2 scopes validated against AuthorizationElements)"]]

\* the document GenerateOpenAPI builds from what it reads
OpenAPIDoc(inf, url, eps, orders) ==
    [OpenAPI |-> "3.0.0",
     Info |-> inf,
     Servers |-> <<[URL |-> url]>>,
     Paths |-> pathsLoop(eps, 1, <<>>, orders),
     Components |-> [Schemas |-> <<>>, SecuritySchemes |-> SecuritySchemes]]

\* the description GenerateAPIDescription builds from what it reads
APIDescriptionDoc(inf, url, eps, orders) ==
    [ServiceName |-> inf.Title,
     Version |-> inf.Version,
     BaseURL |-> url,
     Endpoints |-> [i \in 1..Len(eps) |->
                       apiEndpoint(eps[i], respHeap[eps[i].Responses], orders[i])]]

RECURSIVE MapOrders(_, _)
\* for each endpoint from i on, an order in which its Responses map is visited
MapOrders(eps, i) ==
    IF i > Len(eps) THEN {<<>>}
    ELSE {<<o>> \o rest : o \in Orders(DOMAIN respHeap[eps[i].Responses]),
                          rest \in MapOrders(eps, i + 1)}

\* some endpoint of eps makes the reflector overflow the stack
AnyOverflow(eps) ==
    \E i \in 1..Len(eps) : EndpointOverflows(eps[i], respHeap[eps[i].Responses])

---------------------------------------------------------------------------
(* The registry's operations, called one after the other by one caller.    *)

ZeroInfo == [Title |-> "", Description |-> "", Version |-> ""]

ReflectIdle == input = Nil /\ schema = NotCalled
LockIdle == rw = Nil /\ pc = Nil /\ local = Nil

RegistryInit ==
    /\ endpoints = <<>>
    /\ info = ZeroInfo
    /\ baseURL = ""
    /\ tagsHeap = <<>>
    /\ respHeap = <<>>
    /\ secHeap = <<>>
    /\ result = NoResult
    /\ crashed = FALSE
    /\ calls = <<>>

Init == RegistryInit /\ ReflectIdle /\ LockIdle

\* the assignments of SetServiceInfo
InfoOf(c) == [Title |-> c[1], Description |-> c[3], Version |-> c[2]]
BaseURLOf(c) == c[4]

SetServiceInfo ==
    /\ ~crashed
    /\ \E c \in InfoChoices :
          /\ info' = InfoOf(c)
          /\ baseURL' = BaseURLOf(c)
    /\ result' = NoResult
    /\ UNCHANGED <<endpoints, calls, tagsHeap, respHeap, secHeap, crashed>>
    /\ UNCHANGED <<reflectVars, lockVars>>

\* the EndpointConfig value the caller's literal evaluates to: its slices
\* and its map are allocated at ref
Allocated(cfg, ref) ==
    [cfg EXCEPT !.Tags = Slice(ref, Len(cfg.Tags)),
                !.Responses = ref,
                !.Security = Slice(ref, Len(cfg.Security))]

\* registry.endpoints = append(registry.endpoints, cfg)
AppendEndpoint(eps, cfg) == Append(eps, cfg)

RegisterEndpoint ==
    /\ ~crashed
    /\ Len(endpoints) < MaxEndpoints
    /\ \E k \in DOMAIN EndpointChoices :
          LET cfg == EndpointChoices[k]
              ref == Len(tagsHeap) + 1
          IN /\ tagsHeap' = Append(tagsHeap, cfg.Tags)
             /\ respHeap' = Append(respHeap, cfg.Responses)
             /\ secHeap' = Append(secHeap, cfg.Security)
             /\ endpoints' = AppendEndpoint(endpoints, Allocated(cfg, ref))
             /\ calls' = Append(calls, cfg)
    /\ result' = NoResult
    /\ UNCHANGED <<info, baseURL, crashed>>
    /\ UNCHANGED <<reflectVars, lockVars>>

\* append([]EndpointConfig{}, registry.endpoints...): a new array holding
\* the same struct values, slice headers and map references included
CopyEndpoints(eps) == eps

GetEndpoints ==
    /\ ~crashed
    /\ result' = [kind |-> "endpoints", list |-> CopyEndpoints(endpoints)]
    /\ UNCHANGED <<endpoints, calls, info, baseURL, tagsHeap, respHeap, secHeap, crashed>>
    /\ UNCHANGED <<reflectVars, lockVars>>

GenerateOpenAPI ==
    /\ ~crashed
    /\ IF AnyOverflow(endpoints)
       THEN crashed' = TRUE /\ result' = NoResult
       ELSE /\ crashed' = crashed
            /\ \E orders \in MapOrders(endpoints, 1) :
                  result' = [kind |-> "openapi",
                             doc |-> OpenAPIDoc(info, baseURL, endpoints, orders)]
    /\ UNCHANGED <<endpoints, calls, info, baseURL, tagsHeap, respHeap, secHeap>>
    /\ UNCHANGED <<reflectVars, lockVars>>

GenerateAPIDescription ==
    /\ ~crashed
    /\ IF AnyOverflow(endpoints)
       THEN crashed' = TRUE /\ result' = NoResult
       ELSE /\ crashed' = crashed
            /\ \E orders \in MapOrders(endpoints, 1) :
                  result' = [kind |-> "description",
                             doc |-> APIDescriptionDoc(info, baseURL, endpoints, orders)]
    /\ UNCHANGED <<endpoints, calls, info, baseURL, tagsHeap, respHeap, secHeap>>
    /\ UNCHANGED <<reflectVars, lockVars>>

---------------------------------------------------------------------------
(* What the caller of GetEndpoints can do with the slice it got.           *)

HoldsList == ~crashed /\ result.kind = "endpoints" /\ Len(result.list) > 0

\* got[len(got)-1] = got[0]: an element of the returned slice is replaced
ReplaceElement ==
    /\ HoldsList
    /\ result' = [result EXCEPT !.list[Len(result.list)] = result.list[1]]
    /\ UNCHANGED <<endpoints, calls, info, baseURL, tagsHeap, respHeap, secHeap, crashed>>
    /\ UNCHANGED <<reflectVars, lockVars>>

\* got[0].Summary = "edited": a field of an element is edited
EditElement ==
    /\ HoldsList
    /\ result' = [result EXCEPT !.list[1].Summary = "edited"]
    /\ UNCHANGED <<endpoints, calls, info, baseURL, tagsHeap, respHeap, secHeap, crashed>>
    /\ UNCHANGED <<reflectVars, lockVars>>

\* got[0].Tags[0] = "edited"
EditTags ==
    /\ HoldsList
    /\ LET sl == result.list[1].Tags
       IN /\ sl.len > 0
          /\ tagsHeap' = [tagsHeap EXCEPT ![sl.ref][1] = "edited"]
    /\ UNCHANGED <<endpoints, calls, info, baseURL, respHeap, secHeap, result, crashed>>
    /\ UNCHANGED <<reflectVars, lockVars>>

\* got[0].Responses[418] = "edited"
EditResponses ==
    /\ HoldsList
    /\ LET ref == result.list[1].Responses
       IN /\ DOMAIN respHeap[ref] # {}
          /\ respHeap' = [respHeap EXCEPT ![ref] = SetKey(@, 418, StrResp("edited"))]
    /\ UNCHANGED <<endpoints, calls, info, baseURL, tagsHeap, secHeap, result, crashed>>
    /\ UNCHANGED <<reflectVars, lockVars>>

\* got[0].Security[0] = "edited"
EditSecurity ==
    /\ HoldsList
    /\ LET sl == result.list[1].Security
       IN /\ sl.len > 0
          /\ secHeap' = [secHeap EXCEPT ![sl.ref][1] = "edited"]
    /\ UNCHANGED <<endpoints, calls, info, baseURL, tagsHeap, respHeap, result, crashed>>
    /\ UNCHANGED <<reflectVars, lockVars>>

Next ==
    \/ SetServiceInfo
    \/ RegisterEndpoint
    \/ GetEndpoints
    \/ GenerateOpenAPI
    \/ GenerateAPIDescription
    \/ ReplaceElement
    \/ EditElement
    \/ EditTags
    \/ EditResponses
    \/ EditSecurity

Spec == Init /\ [][Next]_vars

---------------------------------------------------------------------------
(* The reflector called on one value.                                      *)

ReflectInit ==
    /\ RegistryInit
    /\ LockIdle
    /\ input \in ReflectInputs
    /\ schema = NotCalled

\* schema := reflectToJSONSchema(input); an overflow ends the process
Reflect ==
    /\ schema = NotCalled
    /\ schema' = reflectToJSONSchema(input)
    /\ UNCHANGED <<input, registryVars, lockVars>>

ReflectNext == Reflect

ReflectSpec == ReflectInit /\ [][ReflectNext]_vars

---------------------------------------------------------------------------
(* Properties of the reflector (ReflectSpec).                              *)

\* the reflector returned a schema for a value of struct type
ReflectedStruct ==
    /\ schema # NotCalled
    /\ ~IsOverflow(schema)
    /\ input # Nil
    /\ Resolve(Deref(input.type)).kind = "struct"

\* the fields of that struct type
InputFields == Resolve(Deref(input.type)).fields

\* externally visible, with a serialization name
Visible(f) == f.exported /\ f.jsonTag # <<>> /\ f.jsonTag # <<"-">>

\* the serialization name: the json tag up to its first comma
SerialName(f) == IF IndexOf(f.jsonTag, ",") = 0 THEN f.jsonTag
                 ELSE SubSeq(f.jsonTag, 1, IndexOf(f.jsonTag, ",") - 1)

\* field i is visible and no later visible field takes its name
Surviving(fields, i) ==
    /\ Visible(fields[i])
    /\ \A j \in (i + 1)..Len(fields) :
          Visible(fields[j]) => SerialName(fields[j]) # SerialName(fields[i])

\* the annotation's tokens, trimmed
Tokens(tag) == IF tag = <<>> THEN <<>>
               ELSE [i \in DOMAIN Split(tag, ",") |-> TrimSpace(Split(tag, ",")[i])]

\* the values the annotation gives for key, in order
ValuesFor(tag, key) ==
    LET kvs == SelectSeq(Tokens(tag),
                         LAMBDA tok : /\ tok # s_required
                                      /\ IndexOf(tok, "=") > 0
                                      /\ TrimSpace(SubSeq(tok, 1, IndexOf(tok, "=") - 1)) = key)
    IN [i \in DOMAIN kvs |->
           TrimSpace(SubSeq(kvs[i], IndexOf(kvs[i], "=") + 1, Len(kvs[i])))]

\* v is an integer literal: an optional sign and decimal digits
IsIntLiteral(v) ==
    /\ TakeSign(v).rest # <<>>
    /\ \A i \in DOMAIN TakeSign(v).rest : TakeSign(v).rest[i] \in DigitChars

\* the integer such a literal denotes
IntLiteralValue(v) ==
    IF TakeSign(v).neg THEN 0 - DigitsValue(TakeSign(v).rest)
    ELSE DigitsValue(TakeSign(v).rest)

\* C3: reflect is total: for every value it is given, types that refer to
\* themselves through a slice or a map included, the walk ends and returns
\* a schema
C3_ReflectTotal ==
    schema # NotCalled => (~IsOverflow(schema) /\ "type" \in DOMAIN schema)

\* what default=<v> or example=<v> must have left under key in a property
C5_Coerced(prop, key, v) ==
    CASE prop.type = "integer" ->
            IsIntLiteral(v) => prop[key] = IntV(IntLiteralValue(v))
      [] prop.type = "boolean" -> prop[key] = BoolV(v = <<"t", "r", "u", "e">>)
      [] prop.type = "number" -> TRUE
      [] OTHER -> prop[key] = StrV(v)

\* C5: for a field of schema type integer, default=<v> or example=<v> with
\* <v> an integer literal sets default/example to the integer <v> denotes;
\* for boolean the value is true exactly when <v> is "true"; for any other
\* non-numeric type the string is passed through
C5_DefaultParsed ==
    ReflectedStruct =>
        \A i \in DOMAIN InputFields :
            Surviving(InputFields, i) =>
                LET f == InputFields[i]
                    prop == schema.properties[SerialName(f)]
                    defs == ValuesFor(f.openapiTag, s_default)
                    exs == ValuesFor(f.openapiTag, s_example)
                IN /\ defs # <<>> => C5_Coerced(prop, "default", defs[Len(defs)])
                   /\ exs # <<>> => C5_Coerced(prop, "example", exs[Len(exs)])

\* the visible fields, in declaration order
VisibleFields(fields) == SelectSeq(fields, Visible)

\* how many tokens of the annotation are the bare token required
RequiredCount(tag) == Len(SelectSeq(Tokens(tag), LAMBDA tok : tok = s_required))

\* the visible fields that carry the required token
RequiredFields(fields) ==
    SelectSeq(VisibleFields(fields), LAMBDA f : RequiredCount(f.openapiTag) > 0)

RECURSIVE Repeat(_, _)
Repeat(x, n) == IF n = 0 THEN <<>> ELSE <<x>> \o Repeat(x, n - 1)

RECURSIVE RequiredEntries(_)
\* one entry per occurrence of the required token, in field order
RequiredEntries(fs) ==
    IF fs = <<>> THEN <<>>
    ELSE Repeat(SerialName(Head(fs)), RequiredCount(Head(fs).openapiTag))
         \o RequiredEntries(Tail(fs))

DerefOnce(t) == IF Resolve(t).kind = "ptr" THEN Resolve(t).elem ELSE t

\* a record, directly or behind one pointer
IsRecord(t) == Resolve(DerefOnce(t)).kind = "struct"

\* reflect of the record behind t
NestedSchema(t) == reflectToJSONSchema(Value(DerefOnce(t)))

\* C8: a field whose type is a record, directly or behind one pointer, gets
\* the record's own schema, and so do the elements of a sequence and the
\* values of a mapping
C8_NestedRecords ==
    ReflectedStruct =>
        \A i \in DOMAIN InputFields :
            Surviving(InputFields, i) =>
                LET f == InputFields[i]
                    t == Resolve(f.type)
                    prop == schema.properties[SerialName(f)]
                IN /\ IsRecord(f.type) =>
                        /\ "properties" \in DOMAIN prop
                        /\ prop.properties = NestedSchema(f.type).properties
                   /\ (t.kind \in {"slice", "array"} /\ IsRecord(t.elem)) =>
                        prop.items = NestedSchema(t.elem)
                   /\ (t.kind = "map" /\ IsRecord(t.elem)) =>
                        prop.additionalProperties = NestedSchema(t.elem)

---------------------------------------------------------------------------
(* Properties of the registry and the generators (Spec).                   *)

\* the operation a path item holds for a method
Slot(pathItem, method) ==
    CASE method = "GET" -> pathItem.Get
      [] method = "POST" -> pathItem.Post
      [] method = "PUT" -> pathItem.Put
      [] method = "DELETE" -> pathItem.Delete
      [] method = "PATCH" -> pathItem.Patch

\* the registrations of a path and method, by position
Registered(path, method) ==
    {i \in DOMAIN endpoints : endpoints[i].Path = path /\ endpoints[i].Method = method}

Latest(S) == CHOOSE i \in S : \A j \in S : j <= i

\* the operations endpointToOperation can build from registration i
OperationsOf(i) ==
    {endpointToOperation(endpoints[i], respHeap[endpoints[i].Responses], o) :
        o \in Orders(DOMAIN respHeap[endpoints[i].Responses])}

\* C1: the slice GetEndpoints returns is a defensive copy: whatever its
\* holder replaces or edits in it, tags, responses and security of an
\* element included, the registry shows the same endpoints afterwards
C1_DefensiveCopy ==
    [][(HoldsList /\ UNCHANGED <<endpoints, calls, info, baseURL>>)
          => DeepEndpoints' = DeepEndpoints]_vars

Phrase(code) == IF StatusText(code) = "" THEN "Response" ELSE StatusText(code)

\* the responses map holds every declared response under its phrase, with
\* the phrase as description unless the response is a description itself
C4_Keyed(resps, out) ==
    \A c \in DOMAIN resps :
        /\ Phrase(c) \in DOMAIN out
        /\ ((\A d \in DOMAIN resps : d # c => Phrase(d) # Phrase(c)) /\ ~IsString(resps[c]))
              => out[Phrase(c)].Description = Phrase(c)

\* C4: in both generators every declared response is in the endpoint's
\* responses map under the status phrase of its code, under "Response" when
\* the code has none, and its default description is that phrase
C4_ResponsesByPhrase ==
    /\ result.kind = "description" =>
          \A i \in DOMAIN endpoints :
              C4_Keyed(respHeap[endpoints[i].Responses], result.doc.Endpoints[i].Responses)
    /\ result.kind = "openapi" =>
          \A i \in DOMAIN endpoints :
              (/\ endpoints[i].Method \in RecognizedMethods
               /\ i = Latest(Registered(endpoints[i].Path, endpoints[i].Method)))
                 => C4_Keyed(respHeap[endpoints[i].Responses],
                             Slot(result.doc.Paths[endpoints[i].Path],
                                  endpoints[i].Method).Responses)

\* C6: an endpoint with an unrecognized method leaves no trace in the
\* document: every key of paths comes from an endpoint with a recognized
\* method, and a slot nothing was registered for is empty
C6_UnrecognizedDropped ==
    result.kind = "openapi" =>
        /\ \A p \in DOMAIN result.doc.Paths :
              \E i \in DOMAIN endpoints :
                  endpoints[i].Path = p /\ endpoints[i].Method \in RecognizedMethods
        /\ \A p \in DOMAIN result.doc.Paths, m \in RecognizedMethods :
              Registered(p, m) = {} => Slot(result.doc.Paths[p], m) = Nil

\* C9: whatever was registered, GenerateOpenAPI succeeds with version
\* "3.0.0" and exactly the schemes mTLS and Bearer; with nothing registered
\* paths is empty and the description's endpoints are an empty sequence
C9_AlwaysADocument ==
    /\ ~crashed
    /\ result.kind = "openapi" =>
          /\ result.doc.OpenAPI = "3.0.0"
          /\ DOMAIN result.doc.Components.SecuritySchemes = {"mTLS", "Bearer"}
          /\ endpoints = <<>> => result.doc.Paths = <<>>
    /\ (result.kind = "description" /\ endpoints = <<>>) =>
          result.doc.Endpoints = <<>>

\* the entry of GenerateAPIDescription carries the fields a call passed
Carries(entry, cfg) ==
    /\ entry.Method = cfg.Method
    /\ entry.Path = cfg.Path
    /\ entry.Summary = cfg.Summary
    /\ entry.Description = cfg.Description
    /\ SliceElems(tagsHeap, entry.Tags) = cfg.Tags

\* the description lists the RegisterEndpoint calls made so far, one entry
\* each, in the order of the calls
DescriptionListsCalls ==
    result.kind = "description" =>
        /\ Len(result.doc.Endpoints) = Len(calls)
        /\ \A i \in DOMAIN calls : Carries(result.doc.Endpoints[i], calls[i])

\* a step of SetServiceInfo or of a generator leaves every registered record
\* as it was; a step of RegisterEndpoint adds the call's record at the end
RegistryStepAppendOnly ==
    /\ (SetServiceInfo \/ GenerateOpenAPI \/ GenerateAPIDescription) =>
          DeepEndpoints' = DeepEndpoints
    /\ RegisterEndpoint =>
          DeepEndpoints' = Append(DeepEndpoints, calls'[Len(calls')])

\* C11: the registry is append-only and GenerateAPIDescription does not
\* merge: whenever it returns, its endpoints have exactly one entry per
\* RegisterEndpoint call made so far, in registration order, each with that
\* call's method, path, summary, description and tags (duplicates of a
\* path+method stay separate entries), and no SetServiceInfo or generation
\* call removes, reorders or alters a registered record.
C11_AppendOnlyNoMerge ==
    [](DescriptionListsCalls) /\ [][RegistryStepAppendOnly]_vars

---------------------------------------------------------------------------
(* The registry called from several goroutines: every statement between    *)
(* taking registryLock and releasing it is a step of its own.              *)

\* the goroutines that call the package (a bound of the model)
NumGoroutines == 2
Goroutines == 1..NumGoroutines

\* the endpoints registered in the concurrent runs, by index in EndpointChoices
LockChoices == {1, 5}

NoLocals == [arg |-> Nil, info |-> Nil, title |-> Nil, version |-> Nil,
             url |-> Nil, eps |-> Nil, ret |-> Nil]

LockInit ==
    /\ RegistryInit
    /\ ReflectIdle
    /\ rw = [writer |-> 0, readers |-> {}]
    /\ pc = [p \in Goroutines |-> "idle"]
    /\ local = [p \in Goroutines |-> NoLocals]

\* registryLock.Lock(), were it to wait for writers only
CanLockShared == rw.writer = 0

\* registryLock.Lock() can return: nobody holds the lock in either mode
CanLock == rw.writer = 0 /\ rw.readers = {}

\* registryLock.RLock() can return: nobody holds the lock exclusively
CanRLock == rw.writer = 0

Goto(p, label) == pc' = [pc EXCEPT ![p] = label]
SetLocal(p, field, v) == local' = [local EXCEPT ![p][field] = v]

\* registryLock.Lock() of a writer
AcquireLock(p) == CanLock /\ rw' = [rw EXCEPT !.writer = p]

\* registryLock.RLock() of a reader
AcquireRLock(p) == CanRLock /\ rw' = [rw EXCEPT !.readers = @ \cup {p}]

\* SetServiceInfo: registryLock.Lock()
SetServiceInfoLock(p) ==
    /\ ~crashed /\ pc[p] = "idle"
    /\ AcquireLock(p)
    /\ \E c \in InfoChoices : SetLocal(p, "arg", c)
    /\ Goto(p, "si_info")
    /\ UNCHANGED <<registryVars, reflectVars>>

\* SetServiceInfo: registry.info = OpenAPIInfo{...}
SetServiceInfoInfo(p) ==
    /\ ~crashed /\ pc[p] = "si_info"
    /\ info' = InfoOf(local[p].arg)
    /\ Goto(p, "si_url")
    /\ UNCHANGED <<endpoints, calls, baseURL, tagsHeap, respHeap, secHeap, result, crashed>>
    /\ UNCHANGED <<reflectVars, rw, local>>

\* SetServiceInfo: registry.baseURL = baseURL
SetServiceInfoURL(p) ==
    /\ ~crashed /\ pc[p] = "si_url"
    /\ baseURL' = BaseURLOf(local[p].arg)
    /\ Goto(p, "w_unlock")
    /\ UNCHANGED <<endpoints, calls, info, tagsHeap, respHeap, secHeap, result, crashed>>
    /\ UNCHANGED <<reflectVars, rw, local>>

\* RegisterEndpoint: registryLock.Lock()
RegisterEndpointLock(p) ==
    /\ ~crashed /\ pc[p] = "idle"
    /\ Len(endpoints) < MaxEndpoints
    /\ AcquireLock(p)
    /\ \E k \in LockChoices : SetLocal(p, "arg", EndpointChoices[k])
    /\ Goto(p, "re_append")
    /\ UNCHANGED <<registryVars, reflectVars>>

\* RegisterEndpoint: registry.endpoints = append(registry.endpoints, cfg)
RegisterEndpointAppend(p) ==
    /\ ~crashed /\ pc[p] = "re_append"
    /\ LET cfg == local[p].arg
           ref == Len(tagsHeap) + 1
       IN /\ tagsHeap' = Append(tagsHeap, cfg.Tags)
          /\ respHeap' = Append(respHeap, cfg.Responses)
          /\ secHeap' = Append(secHeap, cfg.Security)
          /\ endpoints' = AppendEndpoint(endpoints, Allocated(cfg, ref))
          /\ calls' = Append(calls, cfg)
    /\ Goto(p, "w_unlock")
    /\ UNCHANGED <<info, baseURL, result, crashed>>
    /\ UNCHANGED <<reflectVars, rw, local>>

\* the deferred registryLock.Unlock() of a writer
WriterUnlock(p) ==
    /\ ~crashed /\ pc[p] = "w_unlock"
    /\ rw' = [rw EXCEPT !.writer = 0]
    /\ Goto(p, "idle")
    /\ local' = [local EXCEPT ![p] = NoLocals]
    /\ UNCHANGED <<registryVars, reflectVars>>

\* GetEndpoints: registryLock.RLock()
GetEndpointsRLock(p) ==
    /\ ~crashed /\ pc[p] = "idle"
    /\ AcquireRLock(p)
    /\ Goto(p, "ge_copy")
    /\ UNCHANGED <<registryVars, reflectVars, local>>

\* GetEndpoints: the copy that is returned
GetEndpointsCopy(p) ==
    /\ ~crashed /\ pc[p] = "ge_copy"
    /\ local' = [local EXCEPT ![p].eps = endpoints,
                              ![p].ret = [kind |-> "endpoints",
                                          list |-> CopyEndpoints(endpoints)]]
    /\ Goto(p, "r_unlock")
    /\ UNCHANGED <<registryVars, reflectVars, rw>>

\* GenerateOpenAPI: registryLock.RLock()
GenerateOpenAPIRLock(p) ==
    /\ ~crashed /\ pc[p] = "idle"
    /\ AcquireRLock(p)
    /\ Goto(p, "oa_info")
    /\ UNCHANGED <<registryVars, reflectVars, local>>

\* GenerateOpenAPI: Info: registry.info
GenerateOpenAPIInfo(p) ==
    /\ ~crashed /\ pc[p] = "oa_info"
    /\ SetLocal(p, "info", info)
    /\ Goto(p, "oa_url")
    /\ UNCHANGED <<registryVars, reflectVars, rw>>

\* GenerateOpenAPI: Servers: {URL: registry.baseURL}
GenerateOpenAPIURL(p) ==
    /\ ~crashed /\ pc[p] = "oa_url"
    /\ SetLocal(p, "url", baseURL)
    /\ Goto(p, "oa_range")
    /\ UNCHANGED <<registryVars, reflectVars, rw>>

\* GenerateOpenAPI: range registry.endpoints, evaluated once
GenerateOpenAPIRange(p) ==
    /\ ~crashed /\ pc[p] = "oa_range"
    /\ SetLocal(p, "eps", endpoints)
    /\ Goto(p, "oa_loop")
    /\ UNCHANGED <<registryVars, reflectVars, rw>>

\* GenerateOpenAPI: the loop over the endpoints, up to return spec
GenerateOpenAPILoop(p) ==
    /\ ~crashed /\ pc[p] = "oa_loop"
    /\ IF AnyOverflow(local[p].eps)
       THEN crashed' = TRUE /\ UNCHANGED <<local, pc>>
       ELSE /\ crashed' = crashed
            /\ \E orders \in MapOrders(local[p].eps, 1) :
                  SetLocal(p, "ret",
                           [kind |-> "openapi",
                            doc |-> OpenAPIDoc(local[p].info, local[p].url,
                                               local[p].eps, orders)])
            /\ Goto(p, "r_unlock")
    /\ UNCHANGED <<endpoints, calls, info, baseURL, tagsHeap, respHeap, secHeap, result>>
    /\ UNCHANGED <<reflectVars, rw>>

\* GenerateAPIDescription: registryLock.RLock()
GenerateAPIDescriptionRLock(p) ==
    /\ ~crashed /\ pc[p] = "idle"
    /\ AcquireRLock(p)
    /\ Goto(p, "ad_title")
    /\ UNCHANGED <<registryVars, reflectVars, local>>

\* GenerateAPIDescription: ServiceName: registry.info.Title
GenerateAPIDescriptionTitle(p) ==
    /\ ~crashed /\ pc[p] = "ad_title"
    /\ SetLocal(p, "title", info.Title)
    /\ Goto(p, "ad_version")
    /\ UNCHANGED <<registryVars, reflectVars, rw>>

\* GenerateAPIDescription: Version: registry.info.Version
GenerateAPIDescriptionVersion(p) ==
    /\ ~crashed /\ pc[p] = "ad_version"
    /\ SetLocal(p, "version", info.Version)
    /\ Goto(p, "ad_url")
    /\ UNCHANGED <<registryVars, reflectVars, rw>>

\* GenerateAPIDescription: BaseURL: registry.baseURL
GenerateAPIDescriptionURL(p) ==
    /\ ~crashed /\ pc[p] = "ad_url"
    /\ SetLocal(p, "url", baseURL)
    /\ Goto(p, "ad_range")
    /\ UNCHANGED <<registryVars, reflectVars, rw>>

\* GenerateAPIDescription: range registry.endpoints, evaluated once
GenerateAPIDescriptionRange(p) ==
    /\ ~crashed /\ pc[p] = "ad_range"
    /\ SetLocal(p, "eps", endpoints)
    /\ Goto(p, "ad_loop")
    /\ UNCHANGED <<registryVars, reflectVars, rw>>

\* GenerateAPIDescription: the loop over the endpoints, up to return desc
GenerateAPIDescriptionLoop(p) ==
    /\ ~crashed /\ pc[p] = "ad_loop"
    /\ IF AnyOverflow(local[p].eps)
       THEN crashed' = TRUE /\ UNCHANGED <<local, pc>>
       ELSE /\ crashed' = crashed
            /\ \E orders \in MapOrders(local[p].eps, 1) :
                  SetLocal(p, "ret",
                           [kind |-> "description",
                            doc |-> APIDescriptionDoc(
                                       [Title |-> local[p].title,
                                        Version |-> local[p].version],
                                       local[p].url, local[p].eps, orders)])
            /\ Goto(p, "r_unlock")
    /\ UNCHANGED <<endpoints, calls, info, baseURL, tagsHeap, respHeap, secHeap, result>>
    /\ UNCHANGED <<reflectVars, rw>>

\* the deferred registryLock.RUnlock() of a reader; the call returns
ReaderUnlock(p) ==
    /\ ~crashed /\ pc[p] = "r_unlock"
    /\ rw' = [rw EXCEPT !.readers = @ \ {p}]
    /\ Goto(p, "idle")
    /\ local' = [local EXCEPT ![p] = NoLocals]
    /\ UNCHANGED <<registryVars, reflectVars>>

LockNext ==
    \E p \in Goroutines :
        \/ SetServiceInfoLock(p)
        \/ SetServiceInfoInfo(p)
        \/ SetServiceInfoURL(p)
        \/ RegisterEndpointLock(p)
        \/ RegisterEndpointAppend(p)
        \/ WriterUnlock(p)
        \/ GetEndpointsRLock(p)
        \/ GetEndpointsCopy(p)
        \/ GenerateOpenAPIRLock(p)
        \/ GenerateOpenAPIInfo(p)
        \/ GenerateOpenAPIURL(p)
        \/ GenerateOpenAPIRange(p)
        \/ GenerateOpenAPILoop(p)
        \/ GenerateAPIDescriptionRLock(p)
        \/ GenerateAPIDescriptionTitle(p)
        \/ GenerateAPIDescriptionVersion(p)
        \/ GenerateAPIDescriptionURL(p)
        \/ GenerateAPIDescriptionRange(p)
        \/ GenerateAPIDescriptionLoop(p)
        \/ ReaderUnlock(p)

LockSpec == LockInit /\ [][LockNext]_vars

---------------------------------------------------------------------------
(* Properties of the lock (LockSpec).                                      *)

WriterLabels == {"si_info", "si_url", "re_append", "w_unlock"}
ReaderLabels == {"ge_copy", "oa_info", "oa_url", "oa_range", "oa_loop",
                 "ad_title", "ad_version", "ad_url", "ad_range", "ad_loop",
                 "r_unlock"}

\* title, version, description and base URL of one SetServiceInfo call, or
\* of none yet
SameCall(title, version, description, url) ==
    \/ title = "" /\ version = "" /\ description = "" /\ url = ""
    \/ \E c \in InfoChoices :
          title = c[1] /\ version = c[2] /\ description = c[3] /\ url = c[4]

\* eps is the registration order up to some registration
IsPrefix(eps) ==
    /\ Len(eps) <= Len(endpoints)
    /\ eps = SubSeq(endpoints, 1, Len(eps))

\* what a reader returns shows service info of one call and the endpoints
\* of a prefix of the registration order
C10_Whole(loc) ==
    /\ IsPrefix(loc.eps)
    /\ loc.ret.kind = "endpoints" => loc.ret.list = loc.eps
    /\ loc.ret.kind = "openapi" =>
          /\ SameCall(loc.ret.doc.Info.Title, loc.ret.doc.Info.Version,
                      loc.ret.doc.Info.Description, loc.ret.doc.Servers[1].URL)
          /\ \E orders \in MapOrders(loc.eps, 1) :
                loc.ret.doc.Paths = pathsLoop(loc.eps, 1, <<>>, orders)
    /\ loc.ret.kind = "description" =>
          /\ \E d \in {"", "first", "second"} :
                SameCall(loc.ret.doc.ServiceName, loc.ret.doc.Version, d,
                         loc.ret.doc.BaseURL)
          /\ Len(loc.ret.doc.Endpoints) = Len(loc.eps)
          /\ \A i \in DOMAIN loc.eps :
                /\ loc.ret.doc.Endpoints[i].Method = loc.eps[i].Method
                /\ loc.ret.doc.Endpoints[i].Path = loc.eps[i].Path
                /\ loc.ret.doc.Endpoints[i].Summary = loc.eps[i].Summary

\* C10: no writer's update is applied while a reader or another writer holds
\* the lock, so what a reader returns shows title, version, description and
\* base URL of one SetServiceInfo call and a prefix of the registration order
C10_ReadersSeeWholeWrites ==
    /\ rw.writer # 0 => rw.readers = {}
    /\ \A p \in Goroutines :
          /\ pc[p] \in WriterLabels => rw.writer = p
          /\ pc[p] \in ReaderLabels => (p \in rw.readers /\ rw.writer = 0)
          /\ local[p].ret # Nil => C10_Whole(local[p])
    /\ rw.writer = 0 => SameCall(info.Title, info.Version, info.Description, baseURL)

\* a reader is about to return a description of a registered endpoint under
\* the second service info while another goroutine reads too
C10_Witness ==
    \E p, q \in Goroutines :
        /\ p # q
        /\ pc[p] = "r_unlock"
        /\ local[p].ret.kind = "description"
        /\ local[p].ret.doc.ServiceName = "api"
        /\ Len(local[p].ret.doc.Endpoints) >= 1
        /\ pc[q] \in ReaderLabels

===========================================================================
